---- MODULE Spec2Model ----
(***************************************************************************)
(* Model of the document-QA chat service: the in-memory SessionStore       *)
(* (app/storage/session_store.py), AgentFactory.stream_response            *)
(* (app/agent/factory.py) and the /chat/stream handler with its            *)
(* stream_generator (app/main.py).                                         *)
(*                                                                         *)
(* Strings are sequences of characters.  A run of non-whitespace           *)
(* characters of a literal of the source is kept as one element            *)
(* ("[unserializable"), or as a few adjacent ones ("[", "Error").          *)
(* An optional value (Python None or a value) is <<>> or <<value>>.        *)
(***************************************************************************)
EXTENDS Integers, Sequences, FiniteSets, TLC

VARIABLES
    sessions,          \* SessionStore._sessions: records in dict (insertion) order
    pdf_content,       \* SessionStore._pdf_content: session id -> text
    pdf_metadata,      \* SessionStore._pdf_metadata: session id -> PDFMetadata
    now,               \* the clock read by datetime.now() / time.time()
    info,              \* the SessionInfo returned by the last store call, if it returned one
    inc_calls,         \* per id, the number of increment_message_count calls made
    ret,               \* the last call and what it returned, if that was not a SessionInfo
    reference_order,   \* the ids some call has named so far, in the order of first naming
    replaced,          \* the ids whose document record the last call put in the place of another
    pc,                \* per request, the position of its stream
    session_id,        \* per request, the resolved session id
    request_session_id, \* per request, request.session_id
    message,           \* per request, request.message
    enhanced_message,  \* per request, the prompt composed by stream_chat
    start_time,        \* per request, start_time of stream_chat
    events,            \* per request, the chunks yielded by stream_generator
    status_i,          \* per request, status chunks yielded so far
    token_count,       \* per request, token_count of stream_generator
    sr_items,          \* per request, the items stream_response still has to yield
    sr_raised,         \* per request, the exception that left stream_response
    run_calls,         \* per request, the number of agent.run calls
    run_prompt,        \* per request, the argument of the last agent.run call
    outcome            \* per request, what agent.run did

storeVars == <<sessions, pdf_content, pdf_metadata, now, info, inc_calls,
               ret, reference_order, replaced>>
chatVars == <<pc, session_id, request_session_id, message, enhanced_message, start_time, events,
              status_i, token_count, sr_items, sr_raised, run_calls,
              run_prompt, outcome>>
vars == <<sessions, pdf_content, pdf_metadata, now, info, inc_calls,
          ret, reference_order, replaced, pc, session_id, request_session_id, message,
          enhanced_message, start_time, events,
          status_i, token_count, sr_items, sr_raised, run_calls,
          run_prompt, outcome>>

----------------------------------------------------------------------------
(* Bounds *)

\* longest answer text agent.run returns, in characters
MaxLen == 5
\* cap on the increment_message_count calls made on one id
MaxCalls == 2
\* cap on the store_pdf_content calls made while chats run
MaxDocs == 1
\* the hours the clock advances, and the largest max_age_hours
MaxTime == 2

----------------------------------------------------------------------------
(* Values *)

None == <<>>
Some(x) == <<x>>

\* the session ids a client supplies
Ids == {"s1", "s2"}
\* the chat requests
Req == {"r1", "r2"}
\* str(uuid.uuid4()) of a request: an id no client supplied
uuid4(r) == IF r = "r1" THEN "uuid-r1" ELSE "uuid-r2"
AllIds == Ids \cup {uuid4(r) : r \in Req}

Space == " "
Whitespace == {" ", "\n", "\t"}
Char == {"a", "b", " "}

RECURSIVE StringsUpTo(_)
StringsUpTo(n) ==
    IF n = 0 THEN {<<>>}
    ELSE LET shorter == StringsUpTo(n - 1)
         IN  shorter \cup {Append(s, c) : s \in {t \in shorter : Len(t) = n - 1}, c \in Char}

\* the texts agent.run may return
Answers == StringsUpTo(MaxLen)
\* the messages of the exceptions agent.run may raise
ErrorMessages == {<<"quota", " ", "exceeded">>, <<>>}
\* the messages a client sends
Messages == {<<"Hello">>}
\* the document texts and metadata handed to store_pdf_content
Texts == {<<"a", " ", "b">>, <<>>}
Filenames == {<<"report.pdf">>}

----------------------------------------------------------------------------
(* Python string helpers *)

RECURSIVE SplitFrom(_, _, _, _)
SplitFrom(s, i, cur, acc) ==
    IF i > Len(s)
    THEN IF cur = <<>> THEN acc ELSE Append(acc, cur)
    ELSE IF s[i] \in Whitespace
         THEN SplitFrom(s, i + 1, <<>>, IF cur = <<>> THEN acc ELSE Append(acc, cur))
         ELSE SplitFrom(s, i + 1, Append(cur, s[i]), acc)

\* str.split() without arguments: the maximal runs of non-whitespace
split(s) == SplitFrom(s, 1, <<>>, <<>>)

RECURSIVE join(_, _)
\* sep.join(parts)
join(sep, parts) ==
    IF parts = <<>> THEN <<>>
    ELSE IF Len(parts) = 1 THEN parts[1]
    ELSE parts[1] \o sep \o join(sep, Tail(parts))

RECURSIVE Concat(_)
\* "".join(parts): what repeated += of the parts builds
Concat(parts) == IF parts = <<>> THEN <<>> ELSE Head(parts) \o Concat(Tail(parts))

Digit(d) == CASE d = 0 -> "0" [] d = 1 -> "1" [] d = 2 -> "2" [] d = 3 -> "3"
              [] d = 4 -> "4" [] d = 5 -> "5" [] d = 6 -> "6" [] d = 7 -> "7"
              [] d = 8 -> "8" [] d = 9 -> "9"

RECURSIVE str_int(_)
\* str(n) of a non-negative int
str_int(n) == IF n < 10 THEN <<Digit(n)>> ELSE Append(str_int(n \div 10), Digit(n % 10))

\* needle in haystack, for strings
Contains(haystack, needle) ==
    \E i \in 0..(Len(haystack) - Len(needle)) :
        SubSeq(haystack, i + 1, i + Len(needle)) = needle

----------------------------------------------------------------------------
(* SessionStore *)

has_session(ss, id) == \E i \in 1..Len(ss) : ss[i].session_id = id

session_data(ss, id) == ss[CHOOSE i \in 1..Len(ss) : ss[i].session_id = id]

\* a session that starts with one turn counted
create_session_CountsOne(ss, id, t) ==
    IF has_session(ss, id) THEN ss
    ELSE Append(ss, [session_id |-> id, created_at |-> t,
                     message_count |-> 1, last_activity |-> t])

\* a session made anew whether or not the id has one
create_session_Overwrites(ss, id, t) ==
    LET fresh == [session_id |-> id, created_at |-> t,
                  message_count |-> 0, last_activity |-> t]
    IN  IF has_session(ss, id)
        THEN [i \in 1..Len(ss) |-> IF ss[i].session_id = id THEN fresh ELSE ss[i]]
        ELSE Append(ss, fresh)

\* create_session: the store after the call (an existing session is kept)
create_session(ss, id, t) ==
    IF has_session(ss, id) THEN ss
    ELSE Append(ss, [session_id |-> id, created_at |-> t,
                     message_count |-> 0, last_activity |-> t])

\* get_session_info: the SessionInfo built for a session that exists
SessionInfo(ss, content, metadata, id) ==
    [session_id |-> id,
     created_at |-> session_data(ss, id).created_at,
     message_count |-> session_data(ss, id).message_count,
     has_pdf |-> id \in DOMAIN content,
     pdf_filename |-> IF id \in DOMAIN metadata
                      THEN Some(metadata[id].filename) ELSE None]

\* increment_message_count: the store after the call
increment_message_count(ss, id, t) ==
    [i \in 1..Len(ss) |->
        IF ss[i].session_id = id
        THEN [ss[i] EXCEPT !.message_count = @ + 1, !.last_activity = t]
        ELSE ss[i]]

\* an assignment that keeps the value a key already has
DictSet_KeepsFirst(d, k, v) ==
    [x \in DOMAIN d \cup {k} |-> IF x \in DOMAIN d THEN d[x] ELSE v]

\* dict[key] = value
DictSet(d, k, v) == [x \in DOMAIN d \cup {k} |-> IF x = k THEN v ELSE d[x]]

has_pdf(content, id) == id \in DOMAIN content

get_pdf_content(content, id) == IF id \in DOMAIN content THEN Some(content[id]) ELSE None

get_pdf_metadata(metadata, id) == IF id \in DOMAIN metadata THEN Some(metadata[id]) ELSE None

\* get_context_for_agent: "if pdf_content and pdf_metadata" is false for a
\* missing entry and for an empty text
get_context_for_agent(content, metadata, id) ==
    LET c == get_pdf_content(content, id)
        m == get_pdf_metadata(metadata, id)
    IN  IF c # None /\ c[1] # <<>> /\ m # None
        THEN join(<<"\n", "\n">>,
                  << <<"Document:", " ">> \o m[1].filename \o <<"\n">>
                     \o <<"Pages:", " ">> \o str_int(m[1].pages) \o <<"\n">>
                     \o <<"Content:", "\n">> \o c[1] >>)
        ELSE join(<<"\n", "\n">>, <<>>)

\* PDFMetadata with the characters counted on the input bytes
PDFMetadata_CountsBytes(filename, pages, text, size, t) ==
    [filename |-> filename, pages |-> pages, characters |-> size,
     size_bytes |-> size, upload_time |-> t]

PDFMetadata(filename, pages, text, size, t) ==
    [filename |-> filename, pages |-> pages, characters |-> Len(text),
     size_bytes |-> size, upload_time |-> t]

\* the ids named so far
referenced == {reference_order[i] : i \in 1..Len(reference_order)}

\* the order of first naming once a call has named id
Noted(order, id) ==
    IF \E i \in 1..Len(order) : order[i] = id THEN order ELSE Append(order, id)

\* the session id recorded for a call that takes none
NoId == ""

\* the record of a call: its name, the session id it was given, its result
Returned_by(op, id, value) == Some([op |-> op, id |-> id, value |-> value])

GetSessionInfo(id) ==
    /\ sessions' = create_session(sessions, id, now)
    /\ info' = Some(SessionInfo(sessions', pdf_content, pdf_metadata, id))
    /\ ret' = None
    /\ reference_order' = Noted(reference_order, id)
    /\ replaced' = {}
    /\ UNCHANGED <<pdf_content, pdf_metadata, now, inc_calls>>
    /\ UNCHANGED chatVars

\* create_session, as a call: it returns what get_session_info returns
CreateSession(id) ==
    /\ sessions' = create_session(sessions, id, now)
    /\ info' = Some(SessionInfo(sessions', pdf_content, pdf_metadata, id))
    /\ ret' = None
    /\ reference_order' = Noted(reference_order, id)
    /\ replaced' = {}
    /\ UNCHANGED <<pdf_content, pdf_metadata, now, inc_calls>>
    /\ UNCHANGED chatVars

IncrementMessageCount(id) ==
    /\ inc_calls[id] < MaxCalls
    /\ sessions' = increment_message_count(sessions, id, now)
    /\ inc_calls' = [inc_calls EXCEPT ![id] = @ + 1]
    /\ info' = None
    /\ ret' = Returned_by("increment_message_count", id, None)
    /\ reference_order' = Noted(reference_order, id)
    /\ replaced' = {}
    /\ UNCHANGED <<pdf_content, pdf_metadata, now>>
    /\ UNCHANGED chatVars

\* a document store that also counts a turn on the session
store_pdf_content_CountsTurn(id, text, metadata) ==
    /\ pdf_content' = DictSet(pdf_content, id, text)
    /\ pdf_metadata' = DictSet(pdf_metadata, id, metadata)
    /\ replaced' = IF has_pdf(pdf_content, id) THEN {id} ELSE {}
    /\ reference_order' = Noted(reference_order, id)
    /\ sessions' = increment_message_count(sessions, id, now)
    /\ UNCHANGED <<now, inc_calls>>

\* store_pdf_content that writes the text and leaves the metadata out
store_pdf_content_TextOnly(id, text, metadata) ==
    /\ pdf_content' = DictSet(pdf_content, id, text)
    /\ pdf_metadata' = pdf_metadata
    /\ replaced' = IF has_pdf(pdf_content, id) THEN {id} ELSE {}
    /\ reference_order' = Noted(reference_order, id)
    /\ UNCHANGED <<sessions, now, inc_calls>>

\* store_pdf_content: what the call does to the store
store_pdf_content(id, text, metadata) ==
    /\ pdf_content' = DictSet(pdf_content, id, text)
    /\ pdf_metadata' = DictSet(pdf_metadata, id, metadata)
    /\ replaced' = IF has_pdf(pdf_content, id) THEN {id} ELSE {}
    /\ reference_order' = Noted(reference_order, id)
    /\ UNCHANGED <<sessions, now, inc_calls>>

StorePdfContent(id, text, metadata) ==
    /\ store_pdf_content(id, text, metadata)
    /\ info' = None
    /\ ret' = Returned_by("store_pdf_content", id, None)
    /\ UNCHANGED chatVars

\* has_pdf, as a call
HasPdf(id) ==
    /\ ret' = Returned_by("has_pdf", id, has_pdf(pdf_content, id))
    /\ info' = None
    /\ reference_order' = Noted(reference_order, id)
    /\ replaced' = {}
    /\ UNCHANGED <<sessions, pdf_content, pdf_metadata, now, inc_calls>>
    /\ UNCHANGED chatVars

\* a context lookup that makes the session it is asked about
GetContextForAgent_Touches(id) ==
    /\ ret' = Returned_by("get_context_for_agent", id,
                          get_context_for_agent(pdf_content, pdf_metadata, id))
    /\ sessions' = create_session(sessions, id, now)
    /\ info' = None
    /\ reference_order' = Noted(reference_order, id)
    /\ replaced' = {}
    /\ UNCHANGED <<pdf_content, pdf_metadata, now, inc_calls>>
    /\ UNCHANGED chatVars

\* get_context_for_agent, as a call
GetContextForAgent(id) ==
    /\ ret' = Returned_by("get_context_for_agent", id,
                          get_context_for_agent(pdf_content, pdf_metadata, id))
    /\ info' = None
    /\ reference_order' = Noted(reference_order, id)
    /\ replaced' = {}
    /\ UNCHANGED <<sessions, pdf_content, pdf_metadata, now, inc_calls>>
    /\ UNCHANGED chatVars

\* list_sessions, as a call: one SessionInfo per key of _sessions, in the
\* order of the dict
ListSessions ==
    /\ ret' = Returned_by("list_sessions", NoId,
                 [i \in 1..Len(sessions) |->
                     SessionInfo(sessions, pdf_content, pdf_metadata,
                                 sessions[i].session_id)])
    /\ info' = None
    /\ replaced' = {}
    /\ UNCHANGED <<sessions, pdf_content, pdf_metadata, now, inc_calls, reference_order>>
    /\ UNCHANGED chatVars

\* seconds in one hour, the unit of max_age_hours
Hour == 3600

\* cutoff_time of cleanup_old_sessions called at time t
cutoff_time(t, max_age_hours) == t - (max_age_hours * Hour)

\* a selection that also takes the sessions last active at the cutoff
sessions_to_remove_Inclusive(ss, t, max_age_hours) ==
    {ss[i].session_id :
        i \in {j \in 1..Len(ss) : ss[j].last_activity <= cutoff_time(t, max_age_hours)}}

\* sessions_to_remove: the ids of the sessions last active before the cutoff
sessions_to_remove(ss, t, max_age_hours) ==
    {ss[i].session_id :
        i \in {j \in 1..Len(ss) : ss[j].last_activity < cutoff_time(t, max_age_hours)}}

\* pops that leave the dict as it is
DictPop_Keeps(d, ks) == d

\* dict.pop(key, None) for every key of ks
DictPop(d, ks) == [x \in DOMAIN d \ ks |-> d[x]]

\* _sessions after the pops: the remaining sessions, in insertion order
PopSessions(ss, ks) ==
    LET kept(s) == s.session_id \notin ks
    IN  SelectSeq(ss, kept)

CleanupOldSessions(max_age_hours) ==
    LET gone == sessions_to_remove(sessions, now, max_age_hours)
    IN  /\ sessions' = PopSessions(sessions, gone)
        /\ pdf_content' = DictPop(pdf_content, gone)
        /\ pdf_metadata' = DictPop(pdf_metadata, gone)
        /\ replaced' = {}
        /\ info' = None
        /\ ret' = Returned_by("cleanup_old_sessions", NoId,
                              [max_age_hours |-> max_age_hours,
                               removed |-> Cardinality(gone)])
        /\ UNCHANGED <<now, inc_calls, reference_order>>
        /\ UNCHANGED chatVars

\* datetime.now() moves on between two calls
Tick ==
    /\ now < MaxTime * Hour
    /\ now' = now + Hour
    /\ UNCHANGED <<sessions, pdf_content, pdf_metadata, replaced, info, inc_calls, ret, reference_order>>
    /\ UNCHANGED chatVars

----------------------------------------------------------------------------
(* PDFParser *)

\* Settings.max_pdf_size_mb and Settings.max_pdf_pages
max_pdf_size_mb == 10
max_pdf_pages == 100

max_size_bytes == max_pdf_size_mb * 1024 * 1024
max_pages == max_pdf_pages

\* str.lower() on the elements filenames are made of
LowerOf(c) == CASE c = ".PDF" -> ".pdf" [] c = "REPORT" -> "report" [] OTHER -> c
\* str.lower that leaves upper case as it is
lower_KeepsCase(s) == s

lower(s) == [i \in 1..Len(s) |-> LowerOf(s[i])]

endswith(s, suffix) ==
    /\ Len(s) >= Len(suffix)
    /\ SubSeq(s, Len(s) - Len(suffix) + 1, Len(s)) = suffix

RECURSIVE lstrip(_)
lstrip(s) == IF s # <<>> /\ Head(s) \in Whitespace THEN lstrip(Tail(s)) ELSE s

RECURSIVE rstrip(_)
rstrip(s) ==
    IF s # <<>> /\ s[Len(s)] \in Whitespace THEN rstrip(SubSeq(s, 1, Len(s) - 1)) ELSE s

\* str.strip() that leaves the white space at both ends
strip_KeepsEnds(s) == s

\* str.strip()
strip(s) == rstrip(lstrip(s))

RECURSIVE SplitOnFrom(_, _, _, _, _)
SplitOnFrom(s, c, i, cur, acc) ==
    IF i > Len(s) THEN Append(acc, cur)
    ELSE IF s[i] = c
         THEN SplitOnFrom(s, c, i + 1, <<>>, Append(acc, cur))
         ELSE SplitOnFrom(s, c, i + 1, Append(cur, s[i]), acc)

\* str.split(c): every c separates, empty pieces are kept
split_on(s, c) == SplitOnFrom(s, c, 1, <<>>, <<>>)

RECURSIVE StrippedNonEmpty(_)
\* the loop of _clean_text: the stripped lines that are not empty
StrippedNonEmpty(lines) ==
    IF lines = <<>> THEN <<>>
    ELSE (IF strip(Head(lines)) # <<>> THEN << strip(Head(lines)) >> ELSE <<>>)
         \o StrippedNonEmpty(Tail(lines))

\* PDFParser._clean_text
clean_text(text) == join(<<"\n">>, StrippedNonEmpty(split_on(text, "\n")))

PDFParseError(msg) == [kind |-> "PDFParseError", message |-> msg]

\* the uploaded files: a name, the number of bytes, what pypdf.PdfReader
\* does with the bytes, and per page the text extract_text returns (None
\* when it raises)
UploadNames == {<<"report", ".pdf">>, <<"REPORT", ".PDF">>, <<"notes", ".txt">>}
UploadSizes == {0, 1, max_size_bytes, max_size_bytes + 1}
ReaderErrors == {<<"EOF", " ", "marker", " ", "not", " ", "found">>}
PageLists ==
    { <<>>,
      << Some(<<"a">>) >>,
      << Some(<<" ">>) >>,
      << None, Some(<<" ", "\n", "\t">>), Some(<<>>) >>,
      << None, Some(<<" ", "a", "\n", " ", "\n", "b", " ">>) >>,
      << Some(<<"a">>), Some(<<>>), Some(<<"b", " ">>) >>,
      [i \in 1..(max_pages + 1) |-> Some(<<"a">>)] }
AnyFile == [filename : UploadNames, size : UploadSizes,
            reader : {"ok", "PdfReadError", "Exception"}, pages : PageLists]

\* validate_file with the emptiness check moved to the front
validate_file_EmptinessFirst(file) ==
    IF file.size = 0
    THEN PDFParseError(<<"File", " ">> \o file.filename \o <<" ", "is", " ", "empty">>)
    ELSE IF ~endswith(lower(file.filename), <<".pdf">>)
    THEN PDFParseError(<<"File", " ">> \o file.filename
                       \o <<" ", "is", " ", "not", " ", "a", " ", "PDF">>)
    ELSE IF file.size > max_size_bytes
    THEN PDFParseError(<<"File", " ">> \o file.filename
                       \o <<" ", "is", " ", "too", " ", "large.", " ",
                            "Maximum", " ", "size:", " ">>
                       \o str_int(max_size_bytes \div (1024 * 1024)) \o <<"MB">>)
    ELSE IF file.size = 0
    THEN PDFParseError(<<"File", " ">> \o file.filename \o <<" ", "is", " ", "empty">>)
    ELSE IF file.reader = "PdfReadError"
    THEN PDFParseError(<<"File", " ">> \o file.filename
                       \o <<" ", "is", " ", "corrupted", " ", "or", " ", "invalid:", " ">>
                       \o (CHOOSE e \in ReaderErrors : TRUE))
    ELSE IF file.reader = "Exception"
    THEN [kind |-> "Exception", message |-> (CHOOSE e \in ReaderErrors : TRUE)]
    ELSE IF Len(file.pages) = 0
    THEN PDFParseError(<<"File", " ">> \o file.filename
                       \o <<" ", "has", " ", "no", " ", "pages">>)
    ELSE IF Len(file.pages) > max_pages
    THEN PDFParseError(<<"File", " ">> \o file.filename
                       \o <<" ", "has", " ", "too", " ", "many", " ", "pages.", " ",
                            "Maximum", " ", "pages:", " ">> \o str_int(max_pages))
    ELSE [kind |-> "ok", message |-> <<>>]

\* PDFParser.validate_file: what it raises, if anything
validate_file(file) ==
    IF ~endswith(lower(file.filename), <<".pdf">>)
    THEN PDFParseError(<<"File", " ">> \o file.filename
                       \o <<" ", "is", " ", "not", " ", "a", " ", "PDF">>)
    ELSE IF file.size > max_size_bytes
    THEN PDFParseError(<<"File", " ">> \o file.filename
                       \o <<" ", "is", " ", "too", " ", "large.", " ",
                            "Maximum", " ", "size:", " ">>
                       \o str_int(max_size_bytes \div (1024 * 1024)) \o <<"MB">>)
    ELSE IF file.size = 0
    THEN PDFParseError(<<"File", " ">> \o file.filename \o <<" ", "is", " ", "empty">>)
    ELSE IF file.reader = "PdfReadError"
    THEN PDFParseError(<<"File", " ">> \o file.filename
                       \o <<" ", "is", " ", "corrupted", " ", "or", " ", "invalid:", " ">>
                       \o (CHOOSE e \in ReaderErrors : TRUE))
    ELSE IF file.reader = "Exception"
    THEN [kind |-> "Exception", message |-> (CHOOSE e \in ReaderErrors : TRUE)]
    ELSE IF Len(file.pages) = 0
    THEN PDFParseError(<<"File", " ">> \o file.filename
                       \o <<" ", "has", " ", "no", " ", "pages">>)
    ELSE IF Len(file.pages) > max_pages
    THEN PDFParseError(<<"File", " ">> \o file.filename
                       \o <<" ", "has", " ", "too", " ", "many", " ", "pages.", " ",
                            "Maximum", " ", "pages:", " ">> \o str_int(max_pages))
    ELSE [kind |-> "ok", message |-> <<>>]

\* in how many respects a file differs from a one-page report.pdf
Oddities(file) ==
    (IF file.filename = <<"report", ".pdf">> THEN 0 ELSE 1)
    + (IF file.size = 1 THEN 0 ELSE 1)
    + (IF file.reader = "ok" THEN 0 ELSE 1)
    + (IF file.pages = << Some(<<"a">>) >> THEN 0 ELSE 1)

\* the files submitted: odd in one respect at most
Files == {file \in AnyFile : Oddities(file) <= 1}

RECURSIVE text_parts(_)
\* the page loop of parse_pdf: the stripped texts of the pages that have
\* some, a page whose extraction raises being skipped
text_parts(pages) ==
    IF pages = <<>> THEN <<>>
    ELSE (IF Head(pages) # None /\ strip(Head(pages)[1]) # <<>>
          THEN << strip(Head(pages)[1]) >> ELSE <<>>)
         \o text_parts(Tail(pages))

\* parse_pdf with metadata.pages counting the pages that gave text
parse_pdf_CountsTextPages(file, t) ==
    LET v == validate_file(file)
        full_text == clean_text(join(<<"\n", "\n">>, text_parts(file.pages)))
    IN  IF v.kind = "PDFParseError" THEN v
        ELSE IF v.kind = "Exception"
        THEN PDFParseError(<<"Failed", " ", "to", " ", "parse", " ", "PDF", " ">>
                           \o file.filename \o <<":", " ">> \o v.message)
        ELSE IF strip(full_text) = <<>>
        THEN PDFParseError(<<"No", " ", "readable", " ", "text", " ", "found", " ", "in", " ">>
                           \o file.filename)
        ELSE [kind |-> "ok", text |-> full_text,
              metadata |-> PDFMetadata(file.filename, Len(text_parts(file.pages)),
                                       full_text, file.size, t)]

\* parse_pdf without its "No readable text found" branch
parse_pdf_AcceptsNoText(file, t) ==
    LET v == validate_file(file)
        full_text == clean_text(join(<<"\n", "\n">>, text_parts(file.pages)))
    IN  IF v.kind = "PDFParseError" THEN v
        ELSE IF v.kind = "Exception"
        THEN PDFParseError(<<"Failed", " ", "to", " ", "parse", " ", "PDF", " ">>
                           \o file.filename \o <<":", " ">> \o v.message)
        ELSE [kind |-> "ok", text |-> full_text,
              metadata |-> PDFMetadata(file.filename, Len(file.pages), full_text,
                                       file.size, t)]

\* PDFParser.parse_pdf: the text and metadata it returns, or the
\* PDFParseError it raises
parse_pdf(file, t) ==
    LET v == validate_file(file)
        full_text == clean_text(join(<<"\n", "\n">>, text_parts(file.pages)))
    IN  IF v.kind = "PDFParseError" THEN v
        ELSE IF v.kind = "Exception"
        THEN PDFParseError(<<"Failed", " ", "to", " ", "parse", " ", "PDF", " ">>
                           \o file.filename \o <<":", " ">> \o v.message)
        ELSE IF strip(full_text) = <<>>
        THEN PDFParseError(<<"No", " ", "readable", " ", "text", " ", "found", " ", "in", " ">>
                           \o file.filename)
        ELSE [kind |-> "ok", text |-> full_text,
              metadata |-> PDFMetadata(file.filename, Len(file.pages), full_text,
                                       file.size, t)]

PDFUploadResponse(success, msg, id, metadata) ==
    [success |-> success, message |-> msg, session_id |-> id, metadata |-> metadata]

\* the status of a response whose handler returned its body
OkStatus == 200

\* what the client gets when the handler returns body
Response(body) == [status_code |-> OkStatus, body |-> body]

\* upload_pdf that looks the session up before it reads the file
UploadPdf_OpensSession(id, file, fault) ==
    LET parsed == parse_pdf(file, now)
        failed(msg) ==
            /\ ret' = Returned_by("upload_pdf", id,
                   Response(PDFUploadResponse(FALSE, msg, id, None)))
            /\ sessions' = create_session(sessions, id, now)
            /\ reference_order' = Noted(reference_order, id)
            /\ replaced' = {}
            /\ UNCHANGED <<pdf_content, pdf_metadata, now, inc_calls>>
    IN  /\ IF fault # None
           THEN failed(<<"Upload", " ", "failed:", " ">> \o fault[1])
           ELSE IF parsed.kind = "ok"
           THEN /\ store_pdf_content(id, parsed.text, parsed.metadata)
                /\ ret' = Returned_by("upload_pdf", id,
                       Response(PDFUploadResponse(TRUE,
                           <<"Successfully", " ", "uploaded", " ", "and", " ", "parsed", " ">>
                           \o file.filename, id,
                           Some([filename |-> parsed.metadata.filename,
                                 pages |-> parsed.metadata.pages,
                                 characters |-> parsed.metadata.characters,
                                 size_bytes |-> parsed.metadata.size_bytes]))))
           ELSE failed(parsed.message)
        /\ info' = None
        /\ UNCHANGED chatVars

\* upload_pdf; fault is an exception of file.read()
UploadPdf(id, file, fault) ==
    LET parsed == parse_pdf(file, now)
    IN  /\ IF fault # None
           THEN /\ ret' = Returned_by("upload_pdf", id,
                       Response(PDFUploadResponse(FALSE,
                           <<"Upload", " ", "failed:", " ">> \o fault[1], id, None)))
                /\ replaced' = {}
                /\ UNCHANGED <<sessions, pdf_content, pdf_metadata, reference_order,
                               now, inc_calls>>
           ELSE IF parsed.kind = "ok"
           THEN /\ store_pdf_content(id, parsed.text, parsed.metadata)
                /\ ret' = Returned_by("upload_pdf", id,
                       Response(PDFUploadResponse(TRUE,
                           <<"Successfully", " ", "uploaded", " ", "and", " ", "parsed", " ">>
                           \o file.filename, id,
                           Some([filename |-> parsed.metadata.filename,
                                 pages |-> parsed.metadata.pages,
                                 characters |-> parsed.metadata.characters,
                                 size_bytes |-> parsed.metadata.size_bytes]))))
           ELSE /\ ret' = Returned_by("upload_pdf", id,
                       Response(PDFUploadResponse(FALSE, parsed.message, id, None)))
                /\ replaced' = {}
                /\ UNCHANGED <<sessions, pdf_content, pdf_metadata, reference_order,
                               now, inc_calls>>
        /\ info' = None
        /\ UNCHANGED chatVars

\* validate_file, as a call on a file: it returns nothing or raises
ValidateFile(file) ==
    /\ ret' = Returned_by("validate_file", NoId,
                          [file |-> file, outcome |-> validate_file(file)])
    /\ info' = None
    /\ replaced' = {}
    /\ UNCHANGED <<sessions, pdf_content, pdf_metadata, reference_order, now, inc_calls>>
    /\ UNCHANGED chatVars

----------------------------------------------------------------------------
(* AgentFactory.stream_response *)

\* what agent.run(message) does: it returns an object with a content
\* attribute, a str, or something else, or it raises
Outcomes ==
    [kind : {"object", "str"}, text : Answers]
    \cup [kind : {"other"}, text : {<<>>}]
    \cup [kind : {"raise"}, text : ErrorMessages]

\* the content stream_response takes from the response
content_of(response) ==
    IF response.kind = "object" THEN response.text
    ELSE IF response.kind = "str" THEN response.text
    ELSE <<"[unserializable", " ", "response]">>

\* what the call came to: the content taken from the response, or the
\* message of the exception
Seen(response) ==
    IF response.kind = "raise"
    THEN [kind |-> "raise", text |-> response.text]
    ELSE [kind |-> "return", text |-> content_of(response)]

RECURSIVE TokenItems_LeadingSpace(_, _)
\* the separator test written "i >= 0": a " " before every token
TokenItems_LeadingSpace(tokens, i) ==
    IF i > Len(tokens) THEN <<>>
    ELSE << <<Space>> >> \o << tokens[i] >> \o TokenItems_LeadingSpace(tokens, i + 1)

RECURSIVE TokenItems_NoSeparator(_, _)
\* the separator left out: the tokens only
TokenItems_NoSeparator(tokens, i) ==
    IF i > Len(tokens) THEN <<>>
    ELSE << tokens[i] >> \o TokenItems_NoSeparator(tokens, i + 1)

RECURSIVE TokenItems(_, _)
\* the loop over enumerate(content.split()): a " " before every token but
\* the first
TokenItems(tokens, i) ==
    IF i > Len(tokens) THEN <<>>
    ELSE (IF i > 1 THEN << <<Space>> >> ELSE <<>>)
         \o << tokens[i] >> \o TokenItems(tokens, i + 1)

\* the except branch: one item, no exception leaves the generator
ErrorItem(e) == <<"[", "Error", " ", "generating", " ", "response:", " ">> \o e \o <<"]">>

\* the except branch re-raising instead of yielding
stream_response_Reraises(response) ==
    IF response.kind = "raise"
    THEN [items |-> <<>>, raised |-> Some(response.text)]
    ELSE [items |-> TokenItems(split(content_of(response)), 1), raised |-> None]

\* stream_response: the items it yields and the exception it ends with
stream_response(response) ==
    IF response.kind = "raise"
    THEN [items |-> << ErrorItem(response.text) >>, raised |-> None]
    ELSE [items |-> TokenItems(split(content_of(response)), 1), raised |-> None]

----------------------------------------------------------------------------
(* stream_chat and stream_generator *)

\* the first two steps listed the other way round
StatusSteps_Swapped == << <<"Searching", " ", "knowledge">>, <<"Analyzing">>,
                          <<"Generating", " ", "response">> >>

StatusSteps == << <<"Analyzing">>, <<"Searching", " ", "knowledge">>,
                  <<"Generating", " ", "response">> >>

\* StreamChunk built without elapsed_seconds
StreamChunk_NoElapsed(type, content, step, elapsed, count) ==
    [type |-> type, content |-> content, step |-> step, timestamp |-> now,
     elapsed_seconds |-> None, token_count |-> count]

StreamChunk(type, content, step, elapsed, count) ==
    [type |-> type, content |-> content, step |-> step, timestamp |-> now,
     elapsed_seconds |-> elapsed, token_count |-> count]

get_elapsed(r) == now - start_time[r]

\* the prompt stream_chat composes for the session
EnhancedMessage(content, metadata, id, msg) ==
    IF has_pdf(content, id)
    THEN <<"Context", " ", "from", " ", "uploaded", " ", "document:", "\n">>
         \o get_context_for_agent(content, metadata, id)
         \o <<"\n", "\n", "User", " ", "question:", " ">> \o msg
    ELSE msg

\* request.message handed on instead of enhanced_message
AgentPrompt_RawMessage(r) == message[r]

\* a prompt composed from the store when agent.run is called
AgentPrompt_ReadsStoreLate(r) ==
    EnhancedMessage(pdf_content, pdf_metadata, session_id[r], message[r])

\* the prompt handed to agent.run
AgentPrompt(r) == enhanced_message[r]

\* a header that always carries a generated id
XSessionID_Generated(r) == uuid4(r)

\* the X-Session-ID header of the StreamingResponse
XSessionID(r) == session_id[r]

\* stream_chat up to the return of the StreamingResponse; sid is
\* request.session_id, None or "" when the client supplies none
StartChat(r, sid, msg) ==
    /\ pc[r] = "NotStarted"
    /\ LET id == IF sid # None /\ sid[1] # "" THEN sid[1] ELSE uuid4(r)
       IN  /\ inc_calls[id] < MaxCalls
           /\ session_id' = [session_id EXCEPT ![r] = id]
           /\ sessions' = increment_message_count(sessions, id, now)
           /\ inc_calls' = [inc_calls EXCEPT ![id] = @ + 1]
           /\ reference_order' = Noted(reference_order, id)
           /\ enhanced_message' = [enhanced_message EXCEPT ![r] =
                  EnhancedMessage(pdf_content, pdf_metadata, id, msg)]
    /\ request_session_id' = [request_session_id EXCEPT ![r] = sid]
    /\ message' = [message EXCEPT ![r] = msg]
    /\ start_time' = [start_time EXCEPT ![r] = now]
    /\ pc' = [pc EXCEPT ![r] = "Status"]
    /\ info' = None
    /\ ret' = None
    /\ replaced' = {}
    /\ UNCHANGED <<pdf_content, pdf_metadata, now>>
    /\ UNCHANGED <<events, status_i, token_count, sr_items, sr_raised,
                   run_calls, run_prompt, outcome>>

\* one pass of the loop over the three status steps
EmitStatus(r) ==
    /\ pc[r] = "Status"
    /\ status_i[r] < Len(StatusSteps)
    /\ events' = [events EXCEPT ![r] = Append(@,
           StreamChunk("status", None, Some(StatusSteps[status_i[r] + 1]),
                       Some(get_elapsed(r)), None))]
    /\ status_i' = [status_i EXCEPT ![r] = @ + 1]
    /\ pc' = [pc EXCEPT ![r] = IF status_i[r] + 1 = Len(StatusSteps)
                               THEN "Invoking" ELSE "Status"]
    /\ UNCHANGED storeVars
    /\ UNCHANGED <<session_id, request_session_id, message,
                   enhanced_message, start_time,
                   token_count, sr_items, sr_raised, run_calls, run_prompt,
                   outcome>>

\* the first resumption of stream_response: agent.run is called, its
\* response is split
RunAgent(r, response) ==
    /\ pc[r] = "Invoking"
    /\ run_calls' = [run_calls EXCEPT ![r] = @ + 1]
    /\ run_prompt' = [run_prompt EXCEPT ![r] = Some(AgentPrompt(r))]
    /\ outcome' = [outcome EXCEPT ![r] = Some(Seen(response))]
    /\ sr_items' = [sr_items EXCEPT ![r] = stream_response(response).items]
    /\ sr_raised' = [sr_raised EXCEPT ![r] = stream_response(response).raised]
    /\ pc' = [pc EXCEPT ![r] = "Tokens"]
    /\ UNCHANGED storeVars
    /\ UNCHANGED <<session_id, request_session_id, message,
                   enhanced_message, start_time, events,
                   status_i, token_count>>

\* token_count advanced for the fragments only, not for the separators
EmitToken_CountsFragments(r) ==
    /\ pc[r] = "Tokens"
    /\ sr_items[r] # <<>>
    /\ token_count' = [token_count EXCEPT ![r] =
           IF Head(sr_items[r]) = <<Space>> THEN @ ELSE @ + 1]
    /\ events' = [events EXCEPT ![r] = Append(@,
           StreamChunk("token", Some(Head(sr_items[r])), None,
                       Some(get_elapsed(r)), Some(token_count'[r])))]
    /\ sr_items' = [sr_items EXCEPT ![r] = Tail(@)]
    /\ UNCHANGED storeVars
    /\ UNCHANGED <<pc, session_id, request_session_id, message,
                   enhanced_message, start_time,
                   status_i, sr_raised, run_calls, run_prompt, outcome>>

\* a token chunk built before token_count is advanced
EmitToken_CountsFromZero(r) ==
    /\ pc[r] = "Tokens"
    /\ sr_items[r] # <<>>
    /\ token_count' = [token_count EXCEPT ![r] = @ + 1]
    /\ events' = [events EXCEPT ![r] = Append(@,
           StreamChunk("token", Some(Head(sr_items[r])), None,
                       Some(get_elapsed(r)), Some(token_count[r])))]
    /\ sr_items' = [sr_items EXCEPT ![r] = Tail(@)]
    /\ UNCHANGED storeVars
    /\ UNCHANGED <<pc, session_id, request_session_id, message,
                   enhanced_message, start_time,
                   status_i, sr_raised, run_calls, run_prompt, outcome>>

\* one pass of "async for item in stream_response": a token chunk
EmitToken(r) ==
    /\ pc[r] = "Tokens"
    /\ sr_items[r] # <<>>
    /\ token_count' = [token_count EXCEPT ![r] = @ + 1]
    /\ events' = [events EXCEPT ![r] = Append(@,
           StreamChunk("token", Some(Head(sr_items[r])), None,
                       Some(get_elapsed(r)), Some(token_count'[r])))]
    /\ sr_items' = [sr_items EXCEPT ![r] = Tail(@)]
    /\ UNCHANGED storeVars
    /\ UNCHANGED <<pc, session_id, request_session_id, message,
                   enhanced_message, start_time,
                   status_i, sr_raised, run_calls, run_prompt, outcome>>

\* the done chunk yielded without leaving the generator
Finish_StaysOpen(r) ==
    /\ pc[r] = "Tokens"
    /\ sr_items[r] = <<>>
    /\ Len(events[r]) < 8
    /\ events' = [events EXCEPT ![r] = Append(@,
           StreamChunk("done", None, None, Some(get_elapsed(r)),
                       Some(token_count[r])))]
    /\ UNCHANGED storeVars
    /\ UNCHANGED <<pc, session_id, request_session_id, message,
                   enhanced_message, start_time,
                   status_i, token_count, sr_items, sr_raised, run_calls,
                   run_prompt, outcome>>

\* the done chunk yielded only when a token chunk was
Finish_OnlyAfterTokens(r) ==
    /\ pc[r] = "Tokens"
    /\ sr_items[r] = <<>>
    /\ token_count[r] > 0
    /\ events' = [events EXCEPT ![r] = Append(@,
           StreamChunk("done", None, None, Some(get_elapsed(r)),
                       Some(token_count[r])))]
    /\ pc' = [pc EXCEPT ![r] = "Done"]
    /\ UNCHANGED storeVars
    /\ UNCHANGED <<session_id, request_session_id, message,
                   enhanced_message, start_time,
                   status_i, token_count, sr_items, sr_raised, run_calls,
                   run_prompt, outcome>>

\* the end of the stream: the done chunk after the loop, or the error chunk
\* of the except branch when an exception left stream_response
Finish(r) ==
    /\ pc[r] = "Tokens"
    /\ sr_items[r] = <<>>
    /\ IF sr_raised[r] = None
       THEN /\ events' = [events EXCEPT ![r] = Append(@,
                   StreamChunk("done", None, None, Some(get_elapsed(r)),
                               Some(token_count[r])))]
            /\ pc' = [pc EXCEPT ![r] = "Done"]
       ELSE /\ events' = [events EXCEPT ![r] = Append(@,
                   StreamChunk("error", Some(sr_raised[r][1]), None,
                               Some(get_elapsed(r)), None))]
            /\ pc' = [pc EXCEPT ![r] = "Error"]
    /\ UNCHANGED storeVars
    /\ UNCHANGED <<session_id, request_session_id, message,
                   enhanced_message, start_time,
                   status_i, token_count, sr_items, sr_raised, run_calls,
                   run_prompt, outcome>>

\* a generator whose except branch takes the cancellation and yields an
\* error chunk
Disconnect_YieldsError(r) ==
    /\ pc[r] \in {"Status", "Invoking", "Tokens"}
    /\ pc' = [pc EXCEPT ![r] = "Cancelled"]
    /\ events' = [events EXCEPT ![r] = Append(@,
           StreamChunk("error", Some(<<>>), None, Some(get_elapsed(r)), None))]
    /\ UNCHANGED storeVars
    /\ UNCHANGED <<session_id, request_session_id, message,
                   enhanced_message, start_time,
                   status_i, token_count, sr_items, sr_raised, run_calls,
                   run_prompt, outcome>>

\* the consumer goes away: the generator is closed at the await it is
\* suspended in; that is no Exception, so the except branch is not taken
Disconnect(r) ==
    /\ pc[r] \in {"Status", "Invoking", "Tokens"}
    /\ pc' = [pc EXCEPT ![r] = "Cancelled"]
    /\ UNCHANGED storeVars
    /\ UNCHANGED <<session_id, request_session_id, message,
                   enhanced_message, start_time, events,
                   status_i, token_count, sr_items, sr_raised, run_calls,
                   run_prompt, outcome>>

----------------------------------------------------------------------------
(* Specifications *)

Init ==
    /\ sessions = <<>>
    /\ pdf_content = <<>>
    /\ pdf_metadata = <<>>
    /\ now = 0
    /\ info = None
    /\ inc_calls = [id \in AllIds |-> 0]
    /\ ret = None
    /\ reference_order = <<>>
    /\ replaced = {}
    /\ pc = [r \in Req |-> "NotStarted"]
    /\ session_id = [r \in Req |-> None]
    /\ request_session_id = [r \in Req |-> None]
    /\ message = [r \in Req |-> <<>>]
    /\ enhanced_message = [r \in Req |-> <<>>]
    /\ start_time = [r \in Req |-> 0]
    /\ events = [r \in Req |-> <<>>]
    /\ status_i = [r \in Req |-> 0]
    /\ token_count = [r \in Req |-> 0]
    /\ sr_items = [r \in Req |-> <<>>]
    /\ sr_raised = [r \in Req |-> None]
    /\ run_calls = [r \in Req |-> 0]
    /\ run_prompt = [r \in Req |-> None]
    /\ outcome = [r \in Req |-> None]

StoreDocument ==
    \E id \in Ids, text \in Texts, f \in Filenames :
        /\ Cardinality(DOMAIN pdf_content) < MaxDocs
        /\ StorePdfContent(id, text, PDFMetadata(f, 3, text, 1, now))

\* the requests whose streams are followed fragment by fragment
Streams == {"r1"}

\* the chat turns
NextChat ==
    \/ \E r \in Streams, sid \in {None} \cup {Some(id) : id \in Ids}, msg \in Messages :
           StartChat(r, sid, msg)
    \/ \E r \in Streams : EmitStatus(r)
    \/ \E r \in Streams, response \in Outcomes : RunAgent(r, response)
    \/ \E r \in Streams : EmitToken(r)
    \/ \E r \in Streams : Finish(r)
    \/ \E r \in Streams : Disconnect(r)

\* the chat service: chat turns, with documents stored in between
Next == NextChat \/ StoreDocument

Spec == Init /\ [][Next]_vars

\* the stream steps run while the consumer reads: the event loop resumes a
\* generator that is ready, and agent.run returns or raises
Fairness ==
    \A r \in Streams :
        /\ WF_vars(EmitStatus(r))
        /\ WF_vars(\E response \in Outcomes : RunAgent(r, response))
        /\ WF_vars(EmitToken(r))
        /\ WF_vars(Finish(r))

\* the chat turns under the scheduling of the event loop
FairSpec == Init /\ [][NextChat]_vars /\ Fairness

\* the turns counted so far on the ids clients supply
TurnsCounted == inc_calls["s1"] + inc_calls["s2"]

\* the store driven by turns and document stores only
NextTurns ==
    \/ \E id \in Ids : IncrementMessageCount(id)
    \/ \E id \in Ids, text \in Texts, f \in Filenames :
           StorePdfContent(id, text, PDFMetadata(f, 3, text, 1, now))
    \/ \E id \in Ids : GetSessionInfo(id)
    \/ ListSessions

SpecTurns == Init /\ [][NextTurns]_vars

\* the one-byte, one-page files: well-formed, misnamed or unreadable
OnePageFiles == {file \in Files : file.size = 1 /\ file.pages = << Some(<<"a">>) >>}

\* the store driven by turns, lookups and document submissions
NextUpload ==
    \/ \E id \in Ids : TurnsCounted < MaxCalls /\ IncrementMessageCount(id)
    \/ \E id \in Ids : GetSessionInfo(id)
    \/ \E id \in Ids, text \in Texts, f \in Filenames :
           StorePdfContent(id, text, PDFMetadata(f, 3, text, 1, now))
    \/ \E id \in Ids, file \in OnePageFiles, fault \in {None} \cup {Some(e) : e \in ReaderErrors} :
           UploadPdf(id, file, fault)

SpecUpload == Init /\ [][NextUpload]_vars

\* the one document text stored while sessions age
AgedText == <<"a", " ", "b">>

\* the store driven by turns, lookups, document stores and eviction as
\* time passes
NextEvict ==
    \/ Tick
    \/ \E id \in Ids : GetSessionInfo(id)
    \/ \E id \in Ids : CreateSession(id)
    \/ \E id \in Ids : TurnsCounted < MaxCalls /\ IncrementMessageCount(id)
    \/ \E id \in Ids, f \in Filenames :
           StorePdfContent(id, AgedText, PDFMetadata(f, 3, AgedText, 1, now))
    \/ \E max_age_hours \in 0..MaxTime : CleanupOldSessions(max_age_hours)

SpecEvict == Init /\ [][NextEvict]_vars

\* a one-page report.pdf that parses
GoodFile == [filename |-> <<"report", ".pdf">>, size |-> 1, reader |-> "ok",
             pages |-> << Some(<<"a">>) >>]

\* the session two chat requests name
SharedId == "s1"

\* two chat requests on one session served by one event loop, with lookups
\* and document submissions on that session in between, as time passes; the
\* requests are followed through their status chunks, the later steps of a
\* generator leaving the store alone as these do
NextConcurrent ==
    \/ Tick
    \/ \E r \in Req, msg \in Messages : StartChat(r, Some(SharedId), msg)
    \/ \E r \in Req : EmitStatus(r)
    \/ GetSessionInfo(SharedId)
    \/ UploadPdf(SharedId, GoodFile, None)

SpecConcurrent == Init /\ [][NextConcurrent]_vars

\* what request.session_id may be: absent, empty, or an id
SuppliedIds == {None, Some("")} \cup {Some(id) : id \in Ids}

\* two chat requests up to their first status chunk, with lookups and
\* document stores in between
NextHeaders ==
    \/ \E r \in Req, sid \in SuppliedIds, msg \in Messages : StartChat(r, sid, msg)
    \/ \E r \in Req : status_i[r] = 0 /\ EmitStatus(r)
    \/ \E id \in Ids : GetSessionInfo(id)
    \/ \E id \in Ids, f \in Filenames :
           StorePdfContent(id, AgedText, PDFMetadata(f, 3, AgedText, 1, now))

SpecHeaders == Init /\ [][NextHeaders]_vars

\* the text of the three-page report, character by character
RevenueText == <<"R", "e", "v", "e", "n", "u", "e", " ", "g", "r", "e", "w", " ",
                 "1", "0", "%", ".">>

\* the three pages of the report: the text on the first page, or with a
\* line end after it, or a word on every page
ReportPages ==
    { << Some(RevenueText), Some(<<>>), Some(<<" ">>) >>,
      << Some(RevenueText \o <<"\n">>), Some(<<>>), Some(<<>>) >>,
      << Some(<<"R", "e", "v", "e", "n", "u", "e">>), Some(<<"g", "r", "e", "w">>),
         Some(<<"1", "0", "%", ".">>) >> }

ReportFiles == [filename : {<<"report", ".pdf">>}, size : {1},
                reader : {"ok"}, pages : ReportPages]

\* the files submitted to upload_pdf
SubmittedFiles == Files \cup ReportFiles

\* document submissions of every kind of file
NextParse ==
    \E id \in Ids, file \in SubmittedFiles : UploadPdf(id, file, None)

SpecParse == Init /\ [][NextParse]_vars

\* validations of every file
NextValidate ==
    \E file \in AnyFile : ValidateFile(file)

SpecValidate == Init /\ [][NextValidate]_vars

\* the names of the documents stored one after the other
LaterFilenames == Filenames \cup {<<"notes.pdf">>}

\* the store driven by document stores and the calls that read it
NextRead ==
    \/ Tick
    \/ \E id \in Ids : GetSessionInfo(id)
    \/ \E id \in Ids, text \in Texts, f \in LaterFilenames :
           StorePdfContent(id, text, PDFMetadata(f, 3, text, 1, now))
    \/ \E id \in Ids : HasPdf(id)
    \/ \E id \in Ids : GetContextForAgent(id)

SpecRead == Init /\ [][NextRead]_vars

----------------------------------------------------------------------------
(* Properties of the chat stream *)

Terminal == {"done", "error"}

IsToken(e) == e.type = "token"
IsStatus(e) == e.type = "status"
IsTerminal(e) == e.type \in Terminal

TokenEvents(r) == SelectSeq(events[r], IsToken)
TokenContents(r) == [i \in 1..Len(TokenEvents(r)) |-> TokenEvents(r)[i].content[1]]

Ended(r) == pc[r] \in {"Done", "Error"}
Returned(r) == outcome[r] # None /\ outcome[r][1].kind = "return"
Raised(r) == outcome[r] # None /\ outcome[r][1].kind = "raise"
AnswerText(r) == outcome[r][1].text
Fragments(r) == split(AnswerText(r))
LastEvent(r) == events[r][Len(events[r])]

IsSeparator(c) == c = <<Space>>
NotSeparator(c) == c # <<Space>>

IsPrefix(s, t) == Len(s) <= Len(t) /\ SubSeq(t, 1, Len(s)) = s

\* C1: in every stream a terminal chunk (done or error) is the last chunk:
\* there is at most one, and no chunk of any type follows it.
C1_TerminalIsLast ==
    \A r \in Req : \A i \in 1..Len(events[r]) :
        IsTerminal(events[r][i]) => i = Len(events[r])

C1_Witness ==
    \E r \in Req : pc[r] = "Done" /\ Len(events[r]) >= 5 /\ IsTerminal(LastEvent(r))

\* C2 (as claimed): when agent.run raised with message m, the ended stream
\* is the three status chunks followed by one error chunk with content m,
\* without any token or done chunk.
C2_ErrorEventOnRaise ==
    \A r \in Req :
        (Ended(r) /\ Raised(r)) =>
            /\ Len(events[r]) = Len(StatusSteps) + 1
            /\ \A i \in 1..Len(StatusSteps) : IsStatus(events[r][i])
            /\ LastEvent(r).type = "error"
            /\ LastEvent(r).content = Some(outcome[r][1].text)
            /\ \A i \in 1..Len(events[r]) : events[r][i].type \notin {"token", "done"}

\* C3: when agent.run raised, stream_response lets no exception out and
\* yields exactly one item, which contains "Error generating response: "
\* followed by the message.
C3_ErrorItem ==
    \A r \in Req :
        Raised(r) =>
            LET yielded == TokenContents(r) \o sr_items[r]
            IN  /\ sr_raised[r] = None
                /\ Len(yielded) = 1
                /\ Contains(yielded[1],
                            <<"Error", " ", "generating", " ", "response:", " ">>
                            \o outcome[r][1].text)

C3_Witness ==
    \E r \in Req : Raised(r) /\ pc[r] = "Done" /\ outcome[r][1].text # <<>>

ListedSteps == << <<"Analyzing">>, <<"Searching", " ", "knowledge">>,
                  <<"Generating", " ", "response">> >>

\* C4: the chunks of a stream are the three status chunks in the listed
\* order, then the token chunks, carrying the answer's fragments in the
\* answer's order, then the terminal chunk; no status chunk follows a token
\* chunk and an ended stream has exactly one terminal chunk, at its end.
C4_Order ==
    \A r \in Req :
        /\ \A i \in 1..Len(events[r]) :
              /\ i <= 3 =>
                    /\ IsStatus(events[r][i])
                    /\ events[r][i].step = Some(ListedSteps[i])
              /\ i > 3 => ~IsStatus(events[r][i])
              /\ (i > 3 /\ i < Len(events[r])) => IsToken(events[r][i])
        /\ Returned(r) =>
              IsPrefix(SelectSeq(TokenContents(r), NotSeparator), Fragments(r))
        /\ Ended(r) =>
              /\ Len(events[r]) > 3
              /\ IsTerminal(LastEvent(r))
              /\ Returned(r) => SelectSeq(TokenContents(r), NotSeparator) = Fragments(r)

C4_Witness ==
    \E r \in Req :
        /\ pc[r] = "Done" /\ Returned(r)
        /\ Len(Fragments(r)) >= 2 /\ Fragments(r)[1] # Fragments(r)[2]

C7_Reassembly ==
    \A r \in Req :
        (pc[r] = "Done" /\ Returned(r)) =>
            LET text == Concat(TokenContents(r))
            IN  /\ text = join(<<Space>>, Fragments(r))
                /\ text # <<>> => (text[1] # Space /\ text[Len(text)] # Space)
                /\ ~Contains(text, <<Space, Space>>)

C7_Witness ==
    \E r \in Req :
        /\ pc[r] = "Done" /\ Returned(r) /\ Len(Fragments(r)) >= 2
        /\ AnswerText(r) # join(<<Space>>, Fragments(r))

\* C8: a chat turn calls agent.run at most once, a stream that reached its
\* token phase or its end has called it exactly once, the call is made only
\* after the three status chunks were emitted, and its argument is the
\* prompt stream_chat composed.
C8_RunOnce ==
    \A r \in Req :
        /\ run_calls[r] <= 1
        /\ pc[r] \in {"Tokens", "Done", "Error"} => run_calls[r] = 1
        /\ run_calls[r] = 1 =>
              /\ Len(events[r]) >= Len(StatusSteps)
              /\ \A i \in 1..Len(StatusSteps) :
                    events[r][i].step = Some(StatusSteps[i])
              /\ run_prompt[r] = Some(enhanced_message[r])

C8_Witness ==
    \E r \in Req :
        /\ pc[r] = "Done" /\ run_calls[r] = 1
        /\ run_prompt[r] # Some(message[r])

\* C9: a started stream whose consumer stays connected reaches Done or
\* Error; the two exclude each other: a stream in one of them stays in it
\* and holds no terminal chunk of the other.
C9_ReachesOneTerminal ==
    /\ \A r \in Streams :
          (pc[r] = "Status") ~> (pc[r] \in {"Done", "Error", "Cancelled"})
    /\ [][\A r \in Req : Ended(r) => pc'[r] = pc[r]]_vars
    /\ [](\A r \in Req : \A i \in 1..Len(events[r]) :
             /\ events[r][i].type = "done" => pc[r] = "Done"
             /\ events[r][i].type = "error" => pc[r] = "Error")

C9_Witness ==
    \E r \in Req : pc[r] = "Done" /\ LastEvent(r).type = "done"

----------------------------------------------------------------------------
(* Properties of the session store *)

\* C10 (as claimed): get_session_info(id) returns as message_count the
\* number of increment_message_count(id) calls made so far, whatever
\* store_pdf_content calls were interleaved and also for an id that was not
\* referenced before its first increment.
C10_CountEqualsTurns ==
    info # None => info[1].message_count = inc_calls[info[1].session_id]

\* the message count a get_session_info on id would report
MessageCount(ss, id) == IF has_session(ss, id) THEN session_data(ss, id).message_count ELSE 0

\* C11 (as claimed): a chat request raises the message count of its
\* resolved session by exactly one, for a supplied and for a generated
\* session id and whatever way the stream ends.
C11_ChatCountsOneTurn ==
    [][\A r \in Req :
          (pc[r] = "NotStarted" /\ pc'[r] = "Status") =>
              MessageCount(sessions', session_id'[r])
                  = MessageCount(sessions, session_id'[r]) + 1]_vars

StoreOrUpload(r) == r # None /\ r[1].op \in {"store_pdf_content", "upload_pdf"}

\* C12: a store_pdf_content call and a document submission through
\* upload_pdf, successful or failed, leave the message count of every
\* session as it was.
C12_UploadKeepsCounts ==
    [][StoreOrUpload(ret') =>
          \A id \in AllIds : MessageCount(sessions', id) = MessageCount(sessions, id)]_vars

C12_Witness ==
    /\ ret # None /\ ret[1].op = "upload_pdf" /\ ret[1].value.body.success
    /\ has_session(sessions, ret[1].id)
    /\ MessageCount(sessions, ret[1].id) > 0
    /\ has_pdf(pdf_content, ret[1].id)

\* C13 (as claimed): every id that has a document record is a known
\* session, a store_pdf_content on an unknown id having made the session.
C13_DocumentsHaveSessions ==
    \A id \in AllIds : has_pdf(pdf_content, id) => has_session(sessions, id)

IsCall(r, op) == r # None /\ r[1].op = op

\* the ids of the sessions last active before the cutoff of a cleanup at t
OlderThan(ss, t, max_age_hours) ==
    {id \in AllIds :
        /\ has_session(ss, id)
        /\ session_data(ss, id).last_activity < t - max_age_hours * 3600}

\* C14: cleanup_old_sessions(max_age) removes exactly the sessions last
\* active before the cutoff with their document text and metadata, leaves
\* every other session and document as it was, and returns the number of
\* sessions it removed.
C14_CleanupRemovesOld ==
    [][IsCall(ret', "cleanup_old_sessions") /\ now' = now =>
          LET old == OlderThan(sessions, now, ret'[1].value.max_age_hours)
          IN  /\ \A id \in old :
                    /\ ~has_session(sessions', id)
                    /\ get_pdf_content(pdf_content', id) = None
                    /\ get_pdf_metadata(pdf_metadata', id) = None
              /\ \A id \in AllIds \ old :
                    /\ has_session(sessions', id) <=> has_session(sessions, id)
                    /\ has_session(sessions, id) =>
                           session_data(sessions', id) = session_data(sessions, id)
                    /\ get_pdf_content(pdf_content', id) = get_pdf_content(pdf_content, id)
                    /\ get_pdf_metadata(pdf_metadata', id) = get_pdf_metadata(pdf_metadata, id)
              /\ ret'[1].value.removed = Cardinality(old)]_vars

\* a cleanup that removed one session and its document and kept another
\* session with its document
C14_Witness ==
    /\ IsCall(ret, "cleanup_old_sessions")
    /\ ret[1].value.removed = 1
    /\ ret[1].value.max_age_hours = 1
    /\ Len(sessions) = 1
    /\ sessions[1].last_activity = now - 3600
    /\ has_pdf(pdf_content, sessions[1].session_id)
    /\ Cardinality(DOMAIN pdf_content) = 1
    /\ Cardinality(referenced) = 2

\* the id was the object of some call, and of none at the present instant
ActiveBefore(id, t) ==
    /\ has_session(sessions, id) \/ has_pdf(pdf_content, id)
    /\ has_session(sessions, id) => session_data(sessions, id).last_activity < t
    /\ id \in DOMAIN pdf_metadata => pdf_metadata[id].upload_time < t

\* C15 (as claimed): cleanup_old_sessions with maximum age 0, called after
\* a lookup, a turn or a document store on a session, removes that session,
\* and has_pdf on its id is false afterwards.
C15_CleanupZeroRemoves ==
    [][IsCall(ret', "cleanup_old_sessions") /\ now' = now
          /\ ret'[1].value.max_age_hours = 0 =>
          \A id \in AllIds :
              ActiveBefore(id, now) =>
                  ~has_session(sessions', id) /\ ~has_pdf(pdf_content', id)]_vars

\* C16 (as claimed): a session that received a document after the
\* cutoff of a cleanup_old_sessions call is not removed by it, the store
\* having refreshed its last activity.
C16_StoreRefreshesActivity ==
    [][IsCall(ret', "cleanup_old_sessions") /\ now' = now =>
          \A id \in AllIds :
              (/\ has_session(sessions, id)
               /\ id \in DOMAIN pdf_metadata
               /\ pdf_metadata[id].upload_time
                      > now - ret'[1].value.max_age_hours * 3600)
                  => has_session(sessions', id)]_vars

\* C17 (as claimed): get_context_for_agent(id) is the empty string exactly
\* when has_pdf(id) is false, whatever text was stored.
C17_EmptyContextIffNoPdf ==
    \A id \in AllIds :
        get_context_for_agent(pdf_content, pdf_metadata, id) = <<>>
            <=> ~has_pdf(pdf_content, id)

\* C18 (as claimed): after store_pdf_content(id, text, metadata) the string
\* get_context_for_agent(id) returns holds the stored filename, then the
\* stored page count, then the whole stored text.
C18_ContextHoldsDocument ==
    \A id \in DOMAIN pdf_content :
        LET context == get_context_for_agent(pdf_content, pdf_metadata, id)
            document == <<"Document:", " ">> \o pdf_metadata[id].filename
            pages == <<"Pages:", " ">> \o str_int(pdf_metadata[id].pages)
            content == <<"Content:", "\n">> \o pdf_content[id]
        IN  \E i, j, k \in 0..Len(context) :
                /\ i + Len(document) <= j
                /\ j + Len(pages) <= k
                /\ k + Len(content) = Len(context)
                /\ SubSeq(context, i + 1, i + Len(document)) = document
                /\ SubSeq(context, j + 1, j + Len(pages)) = pages
                /\ SubSeq(context, k + 1, Len(context)) = content

\* C19: a get_context_for_agent call changes nothing in the store, making
\* no session and touching no timestamp, and a second call on the same id
\* with no other call in between returns the string the first returned.
C19_ContextIsARead ==
    [][IsCall(ret', "get_context_for_agent") =>
          /\ UNCHANGED <<sessions, pdf_content, pdf_metadata>>
          /\ (IsCall(ret, "get_context_for_agent") /\ ret[1].id = ret'[1].id)
                 => ret'[1].value = ret[1].value]_vars

\* a context returned for a stored document by a call on an id that has no
\* session, at a later time than the store
C19_Witness ==
    /\ IsCall(ret, "get_context_for_agent")
    /\ ret[1].value # <<>>
    /\ ~has_session(sessions, ret[1].id)
    /\ pdf_metadata[ret[1].id].upload_time < now

\* C20: get_session_info on an id no call has named before returns
\* message_count 0 and has_pdf false, and a has_pdf call that follows a
\* get_session_info returns what that SessionInfo reported, so false for
\* such an id.
C20_FreshSession ==
    [][/\ (info' # None /\ info'[1].session_id \notin referenced)
             => (info'[1].message_count = 0 /\ ~info'[1].has_pdf)
       /\ (info # None /\ IsCall(ret', "has_pdf") /\ ret'[1].id = info[1].session_id)
             => ret'[1].value = info[1].has_pdf]_vars

\* has_pdf answered false for the one id named so far, whose session has
\* counted no turn
C20_Witness ==
    /\ IsCall(ret, "has_pdf")
    /\ ~ret[1].value
    /\ referenced = {ret[1].id}
    /\ has_session(sessions, ret[1].id)
    /\ MessageCount(sessions, ret[1].id) = 0
    /\ ~has_pdf(pdf_content, ret[1].id)

\* C21: a get_session_info or create_session call on an unknown id makes
\* the session with message count 0 and returns it; on a known id it returns
\* the session as it is and resets neither created_at nor the message count
\* nor the document, so a repeated call returns what the first returned.
C21_LookupIsIdempotent ==
    [][info' # None /\ now' = now =>
          LET id == info'[1].session_id
          IN  /\ pdf_content' = pdf_content
              /\ pdf_metadata' = pdf_metadata
              /\ info'[1].has_pdf = has_pdf(pdf_content, id)
              /\ IF has_session(sessions, id)
                 THEN /\ sessions' = sessions
                      /\ info'[1].created_at = session_data(sessions, id).created_at
                      /\ info'[1].message_count = session_data(sessions, id).message_count
                 ELSE /\ Len(sessions') = Len(sessions) + 1
                      /\ SubSeq(sessions', 1, Len(sessions)) = sessions
                      /\ session_data(sessions', id).message_count = 0
                      /\ info'[1].created_at = now
                      /\ info'[1].message_count = 0
              /\ (info # None /\ info[1].session_id = id) => info' = info]_vars

\* a lookup of a session that has counted a turn and holds a document, made
\* later than the session
C21_Witness ==
    /\ info # None
    /\ info[1].message_count > 0
    /\ info[1].created_at < now
    /\ info[1].has_pdf
    /\ session_data(sessions, info[1].session_id).message_count = info[1].message_count

\* C22: a session holds one document record at most and the last store
\* wins: after store_pdf_content(id, t2, m2) the stored text, the metadata,
\* the context string and SessionInfo.pdf_filename of id are those of a
\* store that holds t2 and m2 alone, whatever was stored for id before.
C22_LastStoreWins ==
    [][\A id \in Ids, text \in Texts, f \in LaterFilenames :
          LET metadata == PDFMetadata(f, 3, text, 1, now)
          IN  StorePdfContent(id, text, metadata) =>
                  /\ get_pdf_content(pdf_content', id) = Some(text)
                  /\ get_pdf_metadata(pdf_metadata', id) = Some(metadata)
                  /\ get_context_for_agent(pdf_content', pdf_metadata', id)
                        = get_context_for_agent(DictSet(<<>>, id, text),
                                                DictSet(<<>>, id, metadata), id)
                  /\ SessionInfo(create_session(sessions', id, now),
                                 pdf_content', pdf_metadata', id).pdf_filename
                        = Some(f)]_vars

\* a second store on a session, later than the first and under another
\* name, after which the context is that of the second document
C22_Witness ==
    /\ IsCall(ret, "store_pdf_content")
    /\ replaced = {ret[1].id}
    /\ has_session(sessions, ret[1].id)
    /\ pdf_metadata[ret[1].id].filename = <<"notes.pdf">>
    /\ pdf_metadata[ret[1].id].upload_time > 0
    /\ Contains(get_context_for_agent(pdf_content, pdf_metadata, ret[1].id), <<"notes.pdf">>)

\* C23 (as claimed): list_sessions returns exactly one SessionInfo for
\* every id a lookup, an increment or a document store has named so far, in
\* the order of first naming (no session is evicted here).
C23_ListsEveryNamedId ==
    [][IsCall(ret', "list_sessions") /\ now' = now =>
          [i \in 1..Len(ret'[1].value) |-> ret'[1].value[i].session_id]
              = reference_order]_vars

\* C24 (as claimed): whatever the interleaving of chat requests and
\* document submissions on a session, every chat request raises the message
\* count of the session by one, so k requests raise it by k, and the count
\* never changes without last_activity being set in the same step.
C24_NoLostTurn ==
    [][\A id \in AllIds :
          /\ MessageCount(sessions', id) - MessageCount(sessions, id)
                = inc_calls'[id] - inc_calls[id]
          /\ (has_session(sessions, id) /\ has_session(sessions', id)) =>
                IF MessageCount(sessions', id) # MessageCount(sessions, id)
                THEN session_data(sessions', id).last_activity = now
                ELSE session_data(sessions', id).last_activity
                       = session_data(sessions, id).last_activity]_vars

\* C24, for the sessions a lookup has made: no turn is lost and the count
\* and last_activity change together.
KnownSessionsLoseNoTurn ==
    [][\A id \in AllIds :
          has_session(sessions, id) =>
              /\ has_session(sessions', id)
              /\ MessageCount(sessions', id) - MessageCount(sessions, id)
                    = inc_calls'[id] - inc_calls[id]
              /\ IF MessageCount(sessions', id) # MessageCount(sessions, id)
                 THEN session_data(sessions', id).last_activity = now
                 ELSE session_data(sessions', id).last_activity
                        = session_data(sessions, id).last_activity]_vars

\* a session, a document text or document metadata present before a step
\* and absent after it
Evicted(id) == has_session(sessions, id) /\ ~has_session(sessions', id)
TextDropped(id) == has_pdf(pdf_content, id) /\ ~has_pdf(pdf_content', id)
MetadataDropped(id) == id \in DOMAIN pdf_metadata /\ id \notin DOMAIN pdf_metadata'

\* C25: no request sees a session evicted in part: the step that removes a
\* session entry leaves neither its document text nor its metadata, no step
\* removes a text or metadata without the session entry, and a lookup
\* between two steps finds the text and the metadata of an id both there or
\* both gone.
C25_EvictionIsWhole ==
    [][\A id \in AllIds :
          /\ Evicted(id) =>
                ~has_pdf(pdf_content', id) /\ id \notin DOMAIN pdf_metadata'
          /\ (TextDropped(id) \/ MetadataDropped(id)) => Evicted(id)
          /\ has_pdf(pdf_content', id) <=> id \in DOMAIN pdf_metadata']_vars

\* a cleanup that removed both sessions and left no session entry, no text
\* and no metadata behind
C25_Witness ==
    /\ IsCall(ret, "cleanup_old_sessions")
    /\ ret[1].value.removed = 2
    /\ sessions = <<>>
    /\ DOMAIN pdf_content = {}
    /\ DOMAIN pdf_metadata = {}
    /\ TurnsCounted > 0

\* C26: once the consumer has disconnected no further chunk is emitted for
\* the stream, neither by the step that ends it nor later, agent.run is not
\* called afterwards, and every agent.run call made has returned or raised.
C26_NothingAfterDisconnect ==
    [][\A r \in Req :
          pc'[r] = "Cancelled" =>
              /\ events'[r] = events[r]
              /\ run_calls'[r] = run_calls[r]
              /\ run_calls'[r] = (IF outcome'[r] # None THEN 1 ELSE 0)
              /\ pc[r] = "Cancelled" => UNCHANGED <<sr_items[r], token_count[r]>>]_vars

\* a stream left by its consumer after its first token chunk, with items
\* of the answer that were never sent
C26_Witness ==
    \E r \in Req :
        /\ pc[r] = "Cancelled"
        /\ run_calls[r] = 1
        /\ TokenEvents(r) # <<>>
        /\ sr_items[r] # <<>>
        /\ ~IsTerminal(LastEvent(r))

Supplied(r) == request_session_id[r] # None /\ request_session_id[r][1] # ""

\* C27: the X-Session-ID header of a chat response is the supplied id when
\* the request supplies one, and a non-empty generated id, which no client
\* supplies, when it supplies none or an empty one; the turn is counted on
\* that id and the document context is looked up under it.
C27_HeaderIsResolvedId ==
    [][\A r \in Req :
          (pc[r] = "NotStarted" /\ pc'[r] # "NotStarted") =>
              LET header == XSessionID(r)'
              IN  /\ Supplied(r)' => header = request_session_id'[r][1]
                  /\ ~Supplied(r)' => (header # "" /\ header \notin Ids
                                        /\ header \notin referenced)
                  /\ \A id \in AllIds :
                        inc_calls'[id] = inc_calls[id] + (IF id = header THEN 1 ELSE 0)
                  /\ enhanced_message'[r]
                        = EnhancedMessage(pdf_content, pdf_metadata, header, message'[r])]_vars

\* two requests under way, one on a supplied id that holds a document and
\* one that supplied an empty id, with different headers
C27_Witness ==
    /\ pc["r1"] # "NotStarted" /\ pc["r2"] # "NotStarted"
    /\ request_session_id["r1"] = Some("s1")
    /\ XSessionID("r1") = "s1"
    /\ has_pdf(pdf_content, "s1")
    /\ enhanced_message["r1"] # message["r1"]
    /\ request_session_id["r2"] = Some("")
    /\ XSessionID("r2") = uuid4("r2")

\* a page with no character other than white space, or no text at all
BlankPage(page) ==
    page = None \/ \A i \in 1..Len(page[1]) : page[1][i] \in Whitespace

\* the ways a submitted file fails at the extraction boundary
WrongType(file) == file.filename[Len(file.filename)] \notin {".pdf", ".PDF"}
EmptyFile(file) == file.size = 0
Oversized(file) == file.size > max_pdf_size_mb * 1024 * 1024
TooManyPages(file) == Len(file.pages) > max_pdf_pages
Corrupted(file) == file.reader = "PdfReadError"
NoText(file) == \A i \in 1..Len(file.pages) : BlankPage(file.pages[i])

BoundaryFailure(file) ==
    \/ WrongType(file) \/ EmptyFile(file) \/ Oversized(file)
    \/ TooManyPages(file) \/ Corrupted(file) \/ NoText(file)

\* C28: when the submitted file has the wrong type, is empty, is oversized,
\* has too many pages, is corrupted or has no extractable text, upload_pdf
\* returns a response with a non-error status, success false, a message
\* that names the file, the submitted session id and no metadata, and the
\* store is left as it was.
C28_BoundaryFailureIsAnswered ==
    [][\A id \in Ids, file \in SubmittedFiles :
          (/\ IsCall(ret', "upload_pdf") /\ ret'[1].id = id
           /\ BoundaryFailure(file)
           /\ UploadPdf(id, file, None)) =>
              LET response == ret'[1].value
              IN  /\ response.status_code < 400
                  /\ response.body.success = FALSE
                  /\ response.body.message # <<>>
                  /\ Contains(response.body.message, file.filename)
                  /\ response.body.session_id = id
                  /\ response.body.metadata = None
                  /\ UNCHANGED <<sessions, pdf_content, pdf_metadata>>]_vars

\* a file with too many pages was refused on a session that still holds
\* the document of an earlier submission
C28_Witness ==
    /\ IsCall(ret, "upload_pdf")
    /\ ret[1].value.status_code = 200
    /\ ~ret[1].value.body.success
    /\ ret[1].value.body.metadata = None
    /\ Contains(ret[1].value.body.message, <<"too", " ", "many", " ", "pages.">>)
    /\ has_pdf(pdf_content, ret[1].id)

\* a file upload_pdf reads, validates and extracts text from
Extractable(file) == file.reader = "ok" /\ ~BoundaryFailure(file)

\* what a submission of file on id answers and stores, but for the
\* character count of the report
ReportsDocument(id, file) ==
    LET body == ret'[1].value.body
    IN  /\ body.success = TRUE
        /\ body.session_id = id
        /\ body.metadata # None
        /\ body.metadata[1].filename = file.filename
        /\ body.metadata[1].pages = Len(file.pages)
        /\ body.metadata[1].characters = Len(pdf_content'[id])
        /\ body.metadata[1].size_bytes = file.size
        /\ file \in ReportFiles => body.metadata[1].pages = 3

IsSubmission(id, file) ==
    /\ IsCall(ret', "upload_pdf") /\ ret'[1].id = id
    /\ Extractable(file)
    /\ UploadPdf(id, file, None)

\* C29 as stated: a successful submission answers success true, the
\* submitted name, the page count, the length of the extracted text and the
\* number of input bytes, and the three-page report.pdf with the text
\* 'Revenue grew 10%.' has 18 characters.
C29_ReportHas18Characters ==
    [][\A id \in Ids, file \in SubmittedFiles :
          IsSubmission(id, file) =>
              /\ ReportsDocument(id, file)
              /\ file \in ReportFiles =>
                    ret'[1].value.body.metadata[1].characters = 18]_vars

\* C29: a successful submission answers success true, the submitted name,
\* the page count, the length of the extracted text, which is the text
\* stored, and the number of input bytes; the three-page report.pdf with
\* the text 'Revenue grew 10%.' has 3 pages and 17 characters.
C29_SubmissionReportsDocument ==
    [][\A id \in Ids, file \in SubmittedFiles :
          IsSubmission(id, file) =>
              /\ ReportsDocument(id, file)
              /\ file \in ReportFiles =>
                    ret'[1].value.body.metadata[1].characters = Len(RevenueText)]_vars

\* the three-page report was submitted and answered, and its text is stored
C29_Witness ==
    /\ IsCall(ret, "upload_pdf")
    /\ ret[1].value.body.success
    /\ ret[1].value.body.metadata # None
    /\ ret[1].value.body.metadata[1].filename = <<"report", ".pdf">>
    /\ ret[1].value.body.metadata[1].pages = 3
    /\ ret[1].value.body.metadata[1].characters = 17
    /\ has_pdf(pdf_content, ret[1].id)
    /\ pdf_content[ret[1].id] = RevenueText

\* the last call raised PDFParseError with a message that contains words
RaisedWith(words) ==
    /\ ret[1].value.outcome.kind = "PDFParseError"
    /\ Contains(ret[1].value.outcome.message, words)

\* C30: validate_file raises PDFParseError with 'is not a PDF' in the
\* message for a filename that does not end in .pdf in either case, with
\* 'is empty' for a payload of no bytes under a .pdf name, and with
\* 'is corrupted or invalid' for a payload, within the size limit, on which
\* the reader raises PdfReadError.
C30_ValidateFileRefuses ==
    IsCall(ret, "validate_file") =>
        LET file == ret[1].value.file
        IN  /\ WrongType(file) =>
                  RaisedWith(<<"is", " ", "not", " ", "a", " ", "PDF">>)
            /\ (~WrongType(file) /\ EmptyFile(file)) =>
                  RaisedWith(<<"is", " ", "empty">>)
            /\ (~WrongType(file) /\ ~EmptyFile(file) /\ ~Oversized(file)
                 /\ Corrupted(file)) =>
                  RaisedWith(<<"is", " ", "corrupted", " ", "or", " ", "invalid:">>)

\* an empty payload under an upper-case .PDF name was refused as empty
C30_Witness ==
    /\ IsCall(ret, "validate_file")
    /\ ret[1].value.file.filename = <<"REPORT", ".PDF">>
    /\ ret[1].value.file.size = 0
    /\ RaisedWith(<<"is", " ", "empty">>)

\* a text with no character other than white space
Blank(text) == \A i \in 1..Len(text) : text[i] \in Whitespace

\* a file that passes validate_file and has no text on any page
ValidWithoutText(file) ==
    /\ ~WrongType(file) /\ ~EmptyFile(file) /\ ~Oversized(file)
    /\ file.reader = "ok"
    /\ Len(file.pages) > 0 /\ ~TooManyPages(file)
    /\ NoText(file)

\* C31: a submitted file that passes validation and whose pages hold no
\* text or white space only is refused with 'No readable text found', and
\* after any sequence of document submissions no session holds a document
\* text that is empty or white space only.
C31_NoBlankDocumentStored ==
    [][/\ \A id \in Ids, file \in SubmittedFiles :
             (/\ IsCall(ret', "upload_pdf") /\ ret'[1].id = id
              /\ ValidWithoutText(file)
              /\ UploadPdf(id, file, None)) =>
                 /\ ret'[1].value.body.success = FALSE
                 /\ Contains(ret'[1].value.body.message,
                             <<"No", " ", "readable", " ", "text", " ", "found">>)
       /\ \A id \in AllIds :
             has_pdf(pdf_content', id) => ~Blank(pdf_content'[id])]_vars

\* a file of three pages without text was refused on a session that holds
\* a document, and the document is not blank
C31_Witness ==
    /\ IsCall(ret, "upload_pdf")
    /\ Contains(ret[1].value.body.message,
                <<"No", " ", "readable", " ", "text", " ", "found">>)
    /\ has_pdf(pdf_content, ret[1].id)
    /\ ~Blank(pdf_content[ret[1].id])
    /\ has_pdf(pdf_content, "s1") /\ has_pdf(pdf_content, "s2")

\* the text of the exception agent.run raised in request r, if any
RaisedIn(r) ==
    IF outcome[r] # None /\ outcome[r][1].kind = "raise" /\ outcome[r][1].text # <<>>
    THEN {outcome[r][1].text} ELSE {}

\* C32: when a document submission meets an unexpected fault, the message of
\* its response does not contain the text of the exception, and when the
\* answering capability raises in a chat turn, no event of the stream
\* contains the text of the exception.
C32_FaultTextIsNotShown ==
    [][/\ \A id \in Ids, file \in OnePageFiles, e \in ReaderErrors :
             (/\ IsCall(ret', "upload_pdf") /\ ret'[1].id = id
              /\ UploadPdf(id, file, Some(e))) =>
                 /\ ret'[1].value.body.success = FALSE
                 /\ ~Contains(ret'[1].value.body.message, e)
       /\ \A r \in Req : \A e \in RaisedIn(r)' :
             \A i \in 1..Len(events'[r]) :
                events'[r][i].content # None => ~Contains(events'[r][i].content[1], e)]_vars

\* how many of the first i events of request r are token events
TokenEventsBy(r, i) == Cardinality({j \in 1..i : events[r][j].type = "token"})

\* the fields event i of request r carries for its variant
CarriesItsFields(r, i) ==
    LET e == events[r][i]
    IN  /\ e.type \in {"status", "token", "done", "error"}
        /\ e.timestamp \in Nat
        /\ e.elapsed_seconds # None /\ e.elapsed_seconds[1] \in Nat
        /\ e.type = "status" =>
              \E k \in 1..Len(StatusSteps) : e.step = Some(StatusSteps[k])
        /\ e.type \in {"token", "error"} => e.content # None
        /\ e.type \in {"token", "done", "error"} =>
              e.token_count = Some(TokenEventsBy(r, i))

PromptFor(content, metadata, id, msg) ==
    IF id \in DOMAIN content
    THEN <<"Context", " ", "from", " ", "uploaded", " ", "document:", "\n">>
         \o get_context_for_agent(content, metadata, id)
         \o <<"\n", "\n", "User", " ", "question:", " ">> \o msg
    ELSE msg

\* the step in which request r is received
Received(r) == pc[r] = "NotStarted" /\ pc'[r] # "NotStarted"

\* the step in which agent.run is called for request r
Invoked(r) == run_calls'[r] = run_calls[r] + 1

\* C34: the prompt of a turn is composed when the request is received, from
\* the documents held then: the message alone when the session holds no
\* document, and otherwise 'Context from uploaded document:', the session's
\* context, 'User question:' and the message; it is kept as composed and
\* handed to agent.run, whatever is stored for the session in between.
C34_PromptIsComposedAtReceipt ==
    [][\A r \in Req :
          /\ Received(r) =>
                enhanced_message'[r]
                    = PromptFor(pdf_content, pdf_metadata, session_id'[r], message'[r])
          /\ ~Received(r) => enhanced_message'[r] = enhanced_message[r]
          /\ Invoked(r) => run_prompt'[r] = Some(enhanced_message[r])]_vars

\* agent.run was called with the message alone for a session that holds a
\* document: the document was stored after the request was received
C34_Witness ==
    /\ run_prompt["r1"] = Some(message["r1"])
    /\ has_pdf(pdf_content, session_id["r1"])
    /\ pdf_content[session_id["r1"]] # <<>>

\* C35: the ids that hold a document text are the ids that hold document
\* metadata, and the SessionInfo a lookup returns has has_pdf true exactly
\* when its pdf_filename is set.
C35_TextAndMetadataGoTogether ==
    /\ DOMAIN pdf_content = DOMAIN pdf_metadata
    /\ info # None => (info[1].has_pdf <=> info[1].pdf_filename # None)

\* as time has passed, a lookup has just shown the document of the one
\* session that holds one, while the other session was only named
C35_Witness ==
    /\ DOMAIN pdf_content = {"s1"} /\ DOMAIN pdf_metadata = {"s1"}
    /\ "s2" \in referenced
    /\ now > 0
    /\ info # None /\ info[1].session_id = "s1"
    /\ info[1].has_pdf /\ info[1].pdf_filename = Some(<<"report.pdf">>)

\* C36: a document submission that fails, on a PDFParseError or on an
\* unexpected fault, leaves the sessions, the document texts and the
\* document metadata as they were.
C36_FailedSubmissionChangesNothing ==
    [][(/\ IsCall(ret', "upload_pdf") /\ now' = now
        /\ ret'[1].value.body.success = FALSE) =>
           UNCHANGED <<sessions, pdf_content, pdf_metadata>>]_vars

\* a submission met an unexpected fault on a session that has a counted
\* turn and holds a document, while the other id has no session
C36_Witness ==
    /\ IsCall(ret, "upload_pdf") /\ ret[1].id = "s1"
    /\ ~ret[1].value.body.success
    /\ Contains(ret[1].value.body.message, <<"Upload", " ", "failed:">>)
    /\ has_pdf(pdf_content, "s1") /\ "s1" \in DOMAIN pdf_metadata
    /\ \E i \in 1..Len(sessions) :
          sessions[i].session_id = "s1" /\ sessions[i].message_count > 0
    /\ \A i \in 1..Len(sessions) : sessions[i].session_id # "s2"

\* the token_count of the last token event of request r, 0 before the first
LastTokenCount(r) ==
    IF TokenEvents(r) = <<>> THEN 0
    ELSE TokenEvents(r)[Len(TokenEvents(r))].token_count[1]

\* the step in which request r emits an event
Emits(r) == Len(events'[r]) = Len(events[r]) + 1

\* C37: within a stream the first token event has token_count 1 and every
\* further token event the token_count of the one before plus one, and the
\* done event has the number of token events of the stream.
C37_TokenCountRunsByOne ==
    [][\A r \in Req :
          Emits(r) =>
              LET e == events'[r][Len(events'[r])]
              IN  /\ e.type = "token" =>
                        e.token_count = Some(LastTokenCount(r) + 1)
                  /\ e.type = "done" =>
                        /\ e.token_count = Some(Len(TokenEvents(r)))
                        /\ e.token_count = Some(LastTokenCount(r))]_vars

\* a stream that ended after five token events, the done event counting 5
C37_Witness ==
    /\ pc["r1"] = "Done"
    /\ Len(events["r1"]) = 9
    /\ \A k \in 1..5 : events["r1"][3 + k].type = "token"
                         /\ events["r1"][3 + k].token_count = Some(k)
    /\ events["r1"][9].type = "done"
    /\ events["r1"][9].token_count = Some(5)

\* the words by which validate_file names each of its checks
NotAPdf == <<"is", " ", "not", " ", "a", " ", "PDF">>
TooLarge == <<"is", " ", "too", " ", "large.">>
IsEmpty == <<"is", " ", "empty">>
IsCorrupted == <<"is", " ", "corrupted", " ", "or", " ", "invalid:">>
HasNoPages == <<"has", " ", "no", " ", "pages">>
HasTooManyPages == <<"has", " ", "too", " ", "many", " ", "pages.">>
CheckWords == {NotAPdf, TooLarge, IsEmpty, IsCorrupted, HasNoPages, HasTooManyPages}

\* the checks a file fails, in the order extension, size limit, emptiness,
\* readability, page count
FailedChecks(file) ==
    (IF WrongType(file) THEN <<NotAPdf>> ELSE <<>>)
    \o (IF Oversized(file) THEN <<TooLarge>> ELSE <<>>)
    \o (IF EmptyFile(file) THEN <<IsEmpty>> ELSE <<>>)
    \o (IF Corrupted(file) THEN <<IsCorrupted>> ELSE <<>>)
    \o (IF Len(file.pages) = 0 THEN <<HasNoPages>> ELSE <<>>)
    \o (IF TooManyPages(file) THEN <<HasTooManyPages>> ELSE <<>>)

\* the reader is opened and raises something other than PdfReadError
ReaderFaults(file) ==
    /\ ~WrongType(file) /\ ~Oversized(file) /\ ~EmptyFile(file)
    /\ file.reader = "Exception"

\* C38: validate_file reports the first check a file fails, in the order
\* extension, size limit, emptiness, readability and page count, and names
\* no other check in its message; a file that fails none is accepted.
C38_FirstFailingCheckIsReported ==
    (IsCall(ret, "validate_file") /\ ~ReaderFaults(ret[1].value.file)) =>
        LET file == ret[1].value.file
            raised == ret[1].value.outcome
        IN  IF FailedChecks(file) = <<>> THEN raised.kind = "ok"
            ELSE /\ raised.kind = "PDFParseError"
                 /\ {w \in CheckWords : Contains(raised.message, w)}
                       = {Head(FailedChecks(file))}

\* an empty payload under a name that is no .pdf was refused as not a PDF
C38_Witness ==
    /\ IsCall(ret, "validate_file")
    /\ WrongType(ret[1].value.file) /\ EmptyFile(ret[1].value.file)
    /\ ret[1].value.file.reader = "PdfReadError"
    /\ Len(FailedChecks(ret[1].value.file)) > 2
    /\ Contains(ret[1].value.outcome.message, NotAPdf)
    /\ ~Contains(ret[1].value.outcome.message, IsEmpty)

\* a page whose extraction gives text that is not blank
HasText(page) == ~BlankPage(page)

\* the file with its blank and failing pages taken out
WithoutBlankPages(file) == [file EXCEPT !.pages = SelectSeq(file.pages, HasText)]

\* C39: when a submitted file is accepted, metadata.pages is the number of
\* all its pages, blank and failing pages included, the text stored is the
\* text the file gives with those pages taken out, and metadata.characters
\* is the length of that text.
C39_BlankPagesAreSkippedButCounted ==
    [][\A id \in Ids, file \in SubmittedFiles :
          (/\ IsCall(ret', "upload_pdf") /\ ret'[1].id = id
           /\ ret'[1].value.body.success
           /\ UploadPdf(id, file, None)) =>
              LET m == ret'[1].value.body.metadata[1]
                  kept == parse_pdf(WithoutBlankPages(file), now)
              IN  /\ m.pages = Len(file.pages)
                  /\ kept.kind = "ok"
                  /\ pdf_content'[id] = kept.text
                  /\ m.characters = Len(kept.text)]_vars

\* a file of two pages, the first failing to extract and the second with
\* lines 'a', blank and 'b', was stored as 'a', line end, 'b'
C39_Witness ==
    /\ IsCall(ret, "upload_pdf")
    /\ ret[1].value.body.success
    /\ ret[1].value.body.metadata[1].pages = 2
    /\ ret[1].value.body.metadata[1].characters = 3
    /\ pdf_content[ret[1].id] = <<"a", "\n", "b">>

====
